---- MODULE Spec2Model ----
(***************************************************************************)
(* goline: LINE Login client and HTTP middlewares.                         *)
(*                                                                         *)
(* Two generations of the middleware live in the repository:               *)
(*   - Authorizer      (package goline, src/unnamed/part_001 + client.go)  *)
(*   - LINEAuthorizer  (package auth,   src/authorizer.go)                 *)
(* Each has an identity-token and an access-token middleware.  A request   *)
(* runs a middleware up to its first blocking remote call, waits for the   *)
(* provider's answer, and resumes.  Strings the code inspects character by *)
(* character (the Authorization header, the token) are sequences of        *)
(* one-character strings; values it only copies are TLA+ strings.          *)
(***************************************************************************)
EXTENDS Naturals, Sequences, FiniteSets

\* ------------------------------------------------------------------ bounds
\* Request slots of the server.  Spec follows the request of the first slot
\* over the whole input domain; further slots stay off.
NumReq == 1
\* An Authorization header of a request is a concatenation of at most
\* MaxParts fragments.
MaxParts == 2
\* Headers and tokens given to the extraction functions on their own are
\* concatenations of at most MaxPureParts fragments.
MaxPureParts == 3

Req == 1..NumReq

\* --------------------------------------------------------------- strings
\* The separator of extractBearerToken and the prefix of bearerToken.
BearerSep == <<"B", "e", "a", "r", "e", "r", " ">>

Fragments ==
    { BearerSep,
      <<"B", "a", "s", "i", "c", " ">>,
      <<"B", "e", "a", "r">>,
      <<"e", "r", " ">>,
      <<"x">>,
      <<" ">> }

RECURSIVE Concats(_)
Concats(n) ==
    IF n = 0 THEN { <<>> }
    ELSE LET P == Concats(n - 1) IN P \cup { p \o f : p \in P, f \in Fragments }

\* strings.Index: the first position (1-based) of sep in s, 0 when absent.
Index(s, sep) ==
    LET hits == { i \in 1..(Len(s) + 1) :
                     /\ i + Len(sep) - 1 <= Len(s)
                     /\ SubSeq(s, i, i + Len(sep) - 1) = sep }
    IN IF hits = {} THEN 0 ELSE CHOOSE i \in hits : \A j \in hits : i <= j

\* strings.Split for a non-empty separator: cut at every non-overlapping
\* occurrence, left to right; the rest is the last element.
RECURSIVE Split(_, _)
Split(s, sep) ==
    LET i == Index(s, sep)
    IN IF i = 0 THEN << s >>
       ELSE << SubSeq(s, 1, i - 1) >> \o Split(SubSeq(s, i + Len(sep), Len(s)), sep)

\* strings.TrimSpace, for blanks.
RECURSIVE TrimLeft(_)
TrimLeft(s) == IF s # <<>> /\ Head(s) = " " THEN TrimLeft(Tail(s)) ELSE s

RECURSIVE TrimRight(_)
TrimRight(s) ==
    IF s # <<>> /\ s[Len(s)] = " " THEN TrimRight(SubSeq(s, 1, Len(s) - 1)) ELSE s

\* extractBearerToken that trims the blanks around the token.
extractBearerToken_Trim(authHeader) ==
    LET arr == Split(authHeader, BearerSep)
    IN IF Len(arr) # 2 THEN [err |-> TRUE, token |-> <<>>]
       ELSE [err |-> FALSE, token |-> TrimRight(TrimLeft(arr[2]))]

extractBearerToken(authHeader) ==
    LET arr == Split(authHeader, BearerSep)
    IN IF Len(arr) # 2 THEN [err |-> TRUE, token |-> <<>>]
       ELSE [err |-> FALSE, token |-> arr[2]]

getTokenFromBearerToken(bearerTok) ==
    LET arr == Split(bearerTok, BearerSep)
    IN IF Len(arr) # 2 THEN [err |-> TRUE, token |-> <<>>]
       ELSE [err |-> FALSE, token |-> arr[2]]

bearerToken(token) == BearerSep \o token

\* ------------------------------------------------------- request headers
HeaderKeyLINEUserID == "LINEUserID"
HeaderKeyLINEDisplayName == "LINEDisplayName"
HeaderKeyLINEPictureURL == "LINEPictureURL"
HeaderKeyLINEEmail == "LINEEmail"
HeaderKeyLINEStatusMessage == "LINEStatusMessage"

IdentityKeys ==
    { HeaderKeyLINEUserID, HeaderKeyLINEDisplayName, HeaderKeyLINEPictureURL,
      HeaderKeyLINEEmail, HeaderKeyLINEStatusMessage }

\* The header key the identity-token middleware of Authorizer reads: the
\* identifier authHeader is defined outside the files at hand.
authHeader == "Authorization"

NoHeaders == [k \in IdentityKeys |-> <<>>]

\* What a caller may send under the identity keys: nothing, or a value of its
\* own under every key.
Inbound == { NoHeaders, [k \in IdentityKeys |-> << "evil" >>] }

\* http.Header.Add: append a value under the key.
HeaderAdd(h, k, v) == [h EXCEPT ![k] = Append(@, v)]

\* http.Header.Get: the first value under the key, "" when there is none.
HeaderGet(h, k) == IF h[k] = <<>> THEN "" ELSE Head(h[k])

\* The Authorization header of a request: a list of values, empty when the
\* header is missing.  Get of it is the first value or the empty string.
AuthValues(n) == { <<>> } \cup { << v >> : v \in Concats(n) }

AuthGet(auth, key) ==
    IF key = "Authorization" /\ auth # <<>> THEN Head(auth) ELSE <<>>

\* ----------------------------------------------------------- the provider
StatusOK == 200
StatusBadRequest == 400
StatusUnauthorized == 401
StatusForbidden == 403
StatusTooManyRequests == 429
StatusInternalServerError == 500

\* Status codes the provider answers with: 200, the five mapped ones, and
\* two the client does not know (201 and 503).
StatusCodes == { StatusOK, 201, StatusBadRequest, StatusUnauthorized,
                 StatusForbidden, StatusTooManyRequests,
                 StatusInternalServerError, 503 }

ClientIDs == { "expected", "other" }

IDTokenDatas ==
    [ Sub : {"", "U123"}, Name : {"", "Alice"}, Picutre : {"", "pic"}, Email : {"", "mail"} ]

VerifyAccessTokenResponses == [ ClientID : ClientIDs ]

LINEProfiles ==
    [ UserID : {"", "U123"}, DisplayName : {"", "Alice"},
      PictureURL : {"", "pic"}, StatusMessage : {"", "hi"} ]

Payloads(op) ==
    IF op = "VerifyIDToken" THEN IDTokenDatas
    ELSE IF op = "VerifyAccessToken" THEN VerifyAccessTokenResponses
    ELSE LINEProfiles

\* A response body: one that cannot be read to its end, one that is not
\* JSON of the expected shape, or a JSON object with the fields the
\* middleware uses.
NoObj == [none |-> TRUE]
Bodies(op) ==
    { [json |-> "unreadable", obj |-> NoObj], [json |-> "invalid", obj |-> NoObj] }
      \cup { [json |-> "object", obj |-> d] : d \in Payloads(op) }

NoResp == [transport |-> FALSE, code |-> 0, body |-> [json |-> "none", obj |-> NoObj]]

\* What http.Client.Do can give for a call: a transport error, or a response
\* with a status code and a body.
Responses(op) ==
    { [transport |-> TRUE, code |-> 0, body |-> [json |-> "none", obj |-> NoObj]] }
      \cup { [transport |-> FALSE, code |-> c, body |-> b] : c \in StatusCodes, b \in Bodies(op) }

\* --------------------------------------------------------------- errors
NoErr == [kind |-> "nil", code |-> 0]
Err(kind) == [kind |-> kind, code |-> 0]
NilVal == [nil |-> TRUE]

\* errByStatusCode with the 403 case returning ErrUnauthorized.
errByStatusCode_Swapped(statusCode) ==
    IF statusCode = StatusBadRequest THEN Err("ErrBadRequest")
    ELSE IF statusCode = StatusUnauthorized THEN Err("ErrUnauthorized")
    ELSE IF statusCode = StatusForbidden THEN Err("ErrUnauthorized")
    ELSE IF statusCode = StatusTooManyRequests THEN Err("ErrTooManyRequests")
    ELSE IF statusCode = StatusInternalServerError THEN Err("ErrInternalServerError")
    ELSE [kind |-> "Unknown status code", code |-> statusCode]

errByStatusCode(statusCode) ==
    IF statusCode = StatusBadRequest THEN Err("ErrBadRequest")
    ELSE IF statusCode = StatusUnauthorized THEN Err("ErrUnauthorized")
    ELSE IF statusCode = StatusForbidden THEN Err("ErrForbidden")
    ELSE IF statusCode = StatusTooManyRequests THEN Err("ErrTooManyRequests")
    ELSE IF statusCode = StatusInternalServerError THEN Err("ErrInternalServerError")
    ELSE [kind |-> "Unknown status code", code |-> statusCode]

\* doRequestGetBody: the error and the value the caller gets for a response.
doRequestGetBody(resp) ==
    IF resp.transport THEN [err |-> Err("transport"), val |-> NilVal]
    ELSE IF resp.code # StatusOK THEN [err |-> errByStatusCode(resp.code), val |-> NilVal]
    ELSE IF resp.body.json = "unreadable" THEN [err |-> Err("read"), val |-> NilVal]
    ELSE IF resp.body.json = "invalid" THEN [err |-> Err("unmarshal"), val |-> NilVal]
    ELSE [err |-> NoErr, val |-> resp.body.obj]

\* ------------------------------------------------------- outbound requests
urlGetUserProfile == "https://api.line.me/v2/profile"
urlVerifyAccessToken == "https://api.line.me/oauth2/v2.1/verify"
urlVerifyIDToken == "https://api.line.me/oauth2/v2.1/verify"

\* http.NewRequestWithContext(ctx, method, url, nil): no header, no query.
\* The query is the list of the key/value pairs of URL.RawQuery.
NewRequest(method, url) ==
    [method |-> method, url |-> url, authorization |-> <<>>, rawQuery |-> <<>>]

NoRequest == NewRequest("none", "none")

\* url.QueryEscape / url.QueryUnescape of a text: a blank travels as "+".
QueryEscape(v) == [i \in DOMAIN v |-> IF v[i] = " " THEN "+" ELSE v[i]]
QueryUnescape(v) == [i \in DOMAIN v |-> IF v[i] = "+" THEN " " ELSE v[i]]

\* req.URL.Query(): RawQuery parsed into a map of its own.
URLQuery(req) ==
    [i \in DOMAIN req.rawQuery |->
        << req.rawQuery[i][1], QueryUnescape(req.rawQuery[i][2]) >>]

\* url.Values.Encode
Encode(values) ==
    [i \in DOMAIN values |-> << values[i][1], QueryEscape(values[i][2]) >>]

\* url.Values.Add
ValuesAdd(values, k, v) == Append(values, << k, v >>)

\* The request has the parameter k with value v.
HasParam(req, k, v) ==
    \E i \in DOMAIN URLQuery(req) : URLQuery(req)[i][1] = k /\ URLQuery(req)[i][2] = v

\* The request has a parameter k.
HasKey(req, k) == \E i \in DOMAIN URLQuery(req) : URLQuery(req)[i][1] = k

\* ------------------------------------------------------- client operations
\* A context is context.TODO(), which is never cancelled, or the context of
\* the inbound request.
CtxTODO == "TODO"
CtxRequest == "request"

NoArgs == [clientid |-> "", userid |-> "", nonce |-> ""]

\* NewCall without the check of the token: the request is sent whatever
\* the token is.
NewCall_NoEmptyCheck(op, ctx, token, notFound, req, args) ==
    [op |-> op, ctx |-> ctx, token |-> token, args |-> args, sent |-> TRUE,
     req |-> req, returned |-> FALSE,
     resp |-> NoResp, err |-> NoErr, val |-> NilVal]

\* A remote call of a request: the operation, the context and the token it
\* was given (args: the further arguments of VerifyIDToken), whether an
\* outbound HTTP request was sent and which, whether the call has returned,
\* and what it returned.
NewCall(op, ctx, token, notFound, req, args) ==
    IF token = <<>>
    THEN [op |-> op, ctx |-> ctx, token |-> token, args |-> args, sent |-> FALSE,
          req |-> NoRequest, returned |-> TRUE,
          resp |-> NoResp, err |-> Err(notFound), val |-> NilVal]
    ELSE [op |-> op, ctx |-> ctx, token |-> token, args |-> args, sent |-> TRUE,
          req |-> req, returned |-> FALSE,
          resp |-> NoResp, err |-> NoErr, val |-> NilVal]

\* Client.VerifyIDToken.  The three req.URL.Query().Add(...) statements add
\* to maps of their own (added1..added3), which are dropped: RawQuery of the
\* request stays as it was.
VerifyIDToken(ctx, clientid, idToken, userid, nonce) ==
    LET req0   == NewRequest("POST", urlVerifyIDToken)
        req    == [req0 EXCEPT !.authorization = Append(@, bearerToken(idToken))]
        added1 == ValuesAdd(URLQuery(req), "clientid", clientid)
        added2 == ValuesAdd(URLQuery(req), "nonce", nonce)
        added3 == IF userid # "" THEN ValuesAdd(URLQuery(req), "userid", userid)
                  ELSE URLQuery(req)
    IN NewCall("VerifyIDToken", ctx, idToken, "ID Token not found", req,
               [clientid |-> clientid, userid |-> userid, nonce |-> nonce])

\* Client.VerifyAccessToken: params is written back (RawQuery = Encode()).
VerifyAccessToken(ctx, accessToken) ==
    LET req0   == NewRequest("GET", urlVerifyAccessToken)
        params == ValuesAdd(URLQuery(req0), "access_token", accessToken)
        req    == [req0 EXCEPT !.rawQuery = Encode(params)]
    IN NewCall("VerifyAccessToken", ctx, accessToken, "Access Token not found", req, NoArgs)

\* Client.GetProfile
GetProfile(ctx, accessToken) ==
    LET req0 == NewRequest("GET", urlGetUserProfile)
        req  == [req0 EXCEPT !.authorization = Append(@, bearerToken(accessToken))]
    IN NewCall("GetProfile", ctx, accessToken, "Access Token not found", req, NoArgs)

\* VerifyIDToken of package auth: the nonce is the clock's reading (now).
LINEVerifyIDToken(ctx, clientid, idToken, userid, now) ==
    LET req0   == NewRequest("POST", urlVerifyIDToken)
        req    == [req0 EXCEPT !.authorization = Append(@, bearerToken(idToken))]
        added1 == ValuesAdd(URLQuery(req), "clientid", clientid)
        added2 == ValuesAdd(URLQuery(req), "nonce", now)
        added3 == IF userid # "" THEN ValuesAdd(URLQuery(req), "userid", userid)
                  ELSE URLQuery(req)
    IN NewCall("VerifyIDToken", ctx, idToken, "ID Token not found", req,
               [clientid |-> clientid, userid |-> userid, nonce |-> now])

\* VerifyAccessToken of package auth: a POST, and the access_token parameter
\* is added to a map of its own (added), which is dropped.
LINEVerifyAccessToken(ctx, accessToken) ==
    LET req   == NewRequest("POST", urlVerifyAccessToken)
        added == ValuesAdd(URLQuery(req), "access_token", accessToken)
    IN NewCall("VerifyAccessToken", ctx, accessToken, "Access Token not found", req, NoArgs)

\* GetProfile of package auth
LINEGetProfile(ctx, accessToken) ==
    LET req0 == NewRequest("GET", urlGetUserProfile)
        req  == [req0 EXCEPT !.authorization = Append(@, bearerToken(accessToken))]
    IN NewCall("GetProfile", ctx, accessToken, "Access Token not found", req, NoArgs)

\* The pending call returns with the provider's response.
Returned(c, resp) ==
    LET o == doRequestGetBody(resp)
    IN [c EXCEPT !.returned = TRUE, !.resp = resp, !.err = o.err, !.val = o.val]

Last(s) == s[Len(s)]

\* ------------------------------------------------------------------ state
VARIABLES
    clientID,   \* the client identifier given to the constructors
    rq,         \* per request: position, inputs, headers, calls, response
    px          \* the function applied on its own, with argument and result

vars == << clientID, rq, px >>

IdleReq ==
    [ pc |-> "idle", mw |-> "none", auth |-> <<>>, inbound |-> NoHeaders,
      header |-> NoHeaders, calls |-> <<>>, w |-> [status |-> 0, body |-> <<>>],
      next |-> 0, seen |-> NoHeaders, canceled |-> FALSE ]

\* A slot no request arrives at.
OffReq == [IdleReq EXCEPT !.pc = "off"]

NoPure == [fn |-> "none", arg |-> <<>>, done |-> FALSE, res |-> [err |-> FALSE, token |-> <<>>]]

\* w.WriteHeader(code); return
Reject(q, code) == [q EXCEPT !.w.status = code, !.pc = "done"]

\* next.ServeHTTP(w, r)
ServeNext(q) == [q EXCEPT !.next = @ + 1, !.seen = q.header, !.pc = "done"]

\* The request as the middleware receives it.
Received(q, name, auth, inb) ==
    [q EXCEPT !.mw = name, !.auth = auth, !.inbound = inb, !.header = inb]

\* The middleware blocks in the call it has just made, or goes on at once
\* when the call returned without an outbound request.
Called(q, c) == [q EXCEPT !.calls = Append(@, c), !.pc = IF c.returned THEN "resume" ELSE "wait"]

\* The provider's response reaches the call the request is blocked in.
Answer(q, resp) ==
    [q EXCEPT !.calls = [@ EXCEPT ![Len(q.calls)] = Returned(@, resp)]]

\* ------------------------------------------- Authorizer (package goline)
\* VerifyIDTokenMiddlewareResume with the picture and the e-mail address
\* under each other's key.
VerifyIDTokenMiddlewareResume_Swapped(q) ==
    LET p == Last(q.calls)
    IN IF p.err # NoErr \/ p.val = NilVal THEN Reject(q, StatusUnauthorized)
       ELSE ServeNext([q EXCEPT !.header =
                HeaderAdd(HeaderAdd(HeaderAdd(HeaderAdd(@,
                    HeaderKeyLINEUserID, p.val.Sub),
                    HeaderKeyLINEDisplayName, p.val.Name),
                    HeaderKeyLINEPictureURL, p.val.Email),
                    HeaderKeyLINEEmail, p.val.Picutre)])

\* VerifyIDTokenMiddlewareResume that adds the user id header before it
\* looks at the error (the subject of a failed verification is empty).
VerifyIDTokenMiddlewareResume_AddBeforeCheck(q) ==
    LET p  == Last(q.calls)
        q1 == [q EXCEPT !.header = HeaderAdd(@, HeaderKeyLINEUserID,
                            IF p.val = NilVal THEN "" ELSE p.val.Sub)]
    IN IF p.err # NoErr \/ p.val = NilVal THEN Reject(q1, StatusUnauthorized)
       ELSE ServeNext([q1 EXCEPT !.header =
                HeaderAdd(HeaderAdd(HeaderAdd(@,
                    HeaderKeyLINEDisplayName, p.val.Name),
                    HeaderKeyLINEPictureURL, p.val.Picutre),
                    HeaderKeyLINEEmail, p.val.Email)])

\* VerifyIDTokenMiddleware, after VerifyIDToken returned.
VerifyIDTokenMiddlewareResume(q) ==
    LET p == Last(q.calls)
    IN IF p.err # NoErr \/ p.val = NilVal THEN Reject(q, StatusUnauthorized)
       ELSE ServeNext([q EXCEPT !.header =
                HeaderAdd(HeaderAdd(HeaderAdd(HeaderAdd(@,
                    HeaderKeyLINEUserID, p.val.Sub),
                    HeaderKeyLINEDisplayName, p.val.Name),
                    HeaderKeyLINEPictureURL, p.val.Picutre),
                    HeaderKeyLINEEmail, p.val.Email)])

\* VerifyIDTokenMiddleware that neither tests the header for emptiness nor
\* the error of the extraction, and verifies whatever token it got.
VerifyIDTokenMiddleware_NoHeaderCheck(q, auth, inb) ==
    LET q0 == Received(q, "Authorizer.VerifyIDToken", auth, inb)
        e  == extractBearerToken(AuthGet(auth, authHeader))
        q1 == Called(q0, VerifyIDToken(CtxTODO, clientID, e.token, "", ""))
    IN IF q1.pc = "resume" THEN VerifyIDTokenMiddlewareResume(q1) ELSE q1

\* VerifyIDTokenMiddleware, from the request to the call of VerifyIDToken.
\* The call site passes the token and two empty strings (user id, nonce);
\* the client identifier is the one the client was set up with.
VerifyIDTokenMiddleware(q, auth, inb) ==
    LET q0 == Received(q, "Authorizer.VerifyIDToken", auth, inb)
        hv == AuthGet(auth, authHeader)
        e  == extractBearerToken(hv)
    IN IF hv = <<>> THEN Reject(q0, StatusUnauthorized)
       ELSE IF e.err THEN Reject(q0, StatusUnauthorized)
       ELSE LET q1 == Called(q0, VerifyIDToken(CtxTODO, clientID, e.token, "", ""))
            IN IF q1.pc = "resume" THEN VerifyIDTokenMiddlewareResume(q1) ELSE q1

\* VerifyAccessTokenMiddleware, after GetProfile returned.
VerifyAccessTokenMiddlewareProfile(q) ==
    LET p == Last(q.calls)
    IN IF p.err # NoErr \/ p.val = NilVal THEN Reject(q, StatusUnauthorized)
       ELSE ServeNext([q EXCEPT !.header =
                HeaderAdd(HeaderAdd(HeaderAdd(HeaderAdd(@,
                    HeaderKeyLINEUserID, p.val.UserID),
                    HeaderKeyLINEDisplayName, p.val.DisplayName),
                    HeaderKeyLINEPictureURL, p.val.PictureURL),
                    HeaderKeyLINEStatusMessage, p.val.StatusMessage)])

\* VerifyAccessTokenMiddlewareResume without the test of the error:
\* GetProfile is called whatever VerifyAccessToken returned.
VerifyAccessTokenMiddlewareResume_IgnoreErr(q) ==
    LET v  == Last(q.calls)
        q1 == Called(q, GetProfile(CtxTODO, v.token))
    IN IF q1.pc = "resume" THEN VerifyAccessTokenMiddlewareProfile(q1) ELSE q1

\* VerifyAccessTokenMiddleware, after VerifyAccessToken returned: the result
\* is dropped (the blank identifier), only the error is looked at; then
\* GetProfile is called with the same token.
VerifyAccessTokenMiddlewareResume(q) ==
    LET v == Last(q.calls)
    IN IF v.err # NoErr THEN Reject(q, StatusUnauthorized)
       ELSE LET q1 == Called(q, GetProfile(CtxTODO, v.token))
            IN IF q1.pc = "resume" THEN VerifyAccessTokenMiddlewareProfile(q1) ELSE q1

\* VerifyAccessTokenMiddleware, from the request to the call of
\* VerifyAccessToken.
VerifyAccessTokenMiddleware(q, auth, inb) ==
    LET q0 == Received(q, "Authorizer.VerifyAccessToken", auth, inb)
        hv == AuthGet(auth, "Authorization")
        e  == extractBearerToken(hv)
    IN IF hv = <<>> THEN Reject(q0, StatusUnauthorized)
       ELSE IF e.err THEN Reject(q0, StatusUnauthorized)
       ELSE LET q1 == Called(q0, VerifyAccessToken(CtxTODO, e.token))
            IN IF q1.pc = "resume" THEN VerifyAccessTokenMiddlewareResume(q1) ELSE q1

\* --------------------------------------------- LINEAuthorizer (package auth)
\* LINEAuthorizer.VerifyIDTokenMiddleware, after VerifyIDToken returned.
LINEVerifyIDTokenMiddlewareResume(q) ==
    LET p == Last(q.calls)
    IN IF p.err # NoErr \/ p.val = NilVal THEN Reject(q, StatusUnauthorized)
       ELSE ServeNext([q EXCEPT !.header =
                HeaderAdd(HeaderAdd(HeaderAdd(HeaderAdd(@,
                    "LINEUserID", p.val.Sub),
                    "LINEDisplayName", p.val.Name),
                    "LINEPictureURL", p.val.Picutre),
                    "LINEEmail", p.val.Email)])

\* LINEAuthorizer.VerifyIDTokenMiddleware, from the request to the call.
LINEVerifyIDTokenMiddleware(q, auth, inb, cid) ==
    LET q0 == Received(q, "LINEAuthorizer.VerifyIDToken", auth, inb)
        hv == AuthGet(auth, "Authorization")
        e  == getTokenFromBearerToken(hv)
    IN IF hv = <<>> THEN Reject(q0, StatusBadRequest)
       ELSE IF e.err THEN Reject(q0, StatusBadRequest)
       ELSE LET q1 == Called(q0, LINEVerifyIDToken(CtxTODO, cid, e.token, "", "now"))
            IN IF q1.pc = "resume" THEN LINEVerifyIDTokenMiddlewareResume(q1) ELSE q1

\* LINEAuthorizer.VerifyAccessTokenMiddleware, after GetProfile returned.
LINEVerifyAccessTokenMiddlewareProfile(q) ==
    LET p == Last(q.calls)
    IN IF p.err # NoErr \/ p.val = NilVal THEN Reject(q, StatusUnauthorized)
       ELSE ServeNext([q EXCEPT !.header =
                HeaderAdd(HeaderAdd(HeaderAdd(HeaderAdd(@,
                    "LINEUserID", p.val.UserID),
                    "LINEDisplayName", p.val.DisplayName),
                    "LINEPictureURL", p.val.PictureURL),
                    "LINEStatusMessage", p.val.StatusMessage)])

\* LINEAuthorizer.VerifyAccessTokenMiddleware, after VerifyAccessToken
\* returned: the client identifier of the result is compared with the one of
\* the LINEAuthorizer (cid).
LINEVerifyAccessTokenMiddlewareResume(q, cid) ==
    LET res == Last(q.calls)
    IN IF res.err # NoErr THEN Reject(q, StatusUnauthorized)
       ELSE IF res.val.ClientID # cid THEN Reject(q, StatusBadRequest)
       ELSE LET q1 == Called(q, LINEGetProfile(CtxTODO, res.token))
            IN IF q1.pc = "resume" THEN LINEVerifyAccessTokenMiddlewareProfile(q1) ELSE q1

\* LINEAuthorizer.VerifyAccessTokenMiddleware, from the request to the call.
LINEVerifyAccessTokenMiddleware(q, auth, inb, cid) ==
    LET q0 == Received(q, "LINEAuthorizer.VerifyAccessToken", auth, inb)
        hv == AuthGet(auth, "Authorization")
        e  == getTokenFromBearerToken(hv)
    IN IF hv = <<>> THEN Reject(q0, StatusBadRequest)
       ELSE IF e.err THEN Reject(q0, StatusBadRequest)
       ELSE LET q1 == Called(q0, LINEVerifyAccessToken(CtxTODO, e.token))
            IN IF q1.pc = "resume" THEN LINEVerifyAccessTokenMiddlewareResume(q1, cid) ELSE q1

\* ---------------------------------------------------------------- actions
\* NewAuthorizer / NewLINEAuthorizer: the state after construction.  No
\* request has arrived.  One request is followed over the whole input
\* domain; the other slots stay off.
Init ==
    /\ clientID \in ClientIDs
    /\ rq = [r \in Req |-> IF r = 1 THEN IdleReq ELSE OffReq]
    /\ px = NoPure

Waiting(r, name, op) ==
    /\ rq[r].pc = "wait"
    /\ rq[r].mw = name
    /\ Last(rq[r].calls).op = op

\* A request reaches the identity-token middleware of Authorizer.
IDTokenRequest(r) ==
    /\ rq[r].pc = "idle"
    /\ \E auth \in AuthValues(MaxParts), inb \in Inbound :
          rq' = [rq EXCEPT ![r] = VerifyIDTokenMiddleware(@, auth, inb)]
    /\ UNCHANGED << clientID, px >>

\* The provider answers the verify-id-token call of Authorizer.
IDTokenVerified(r) ==
    /\ Waiting(r, "Authorizer.VerifyIDToken", "VerifyIDToken")
    /\ \E resp \in Responses("VerifyIDToken") :
          rq' = [rq EXCEPT ![r] = VerifyIDTokenMiddlewareResume(Answer(@, resp))]
    /\ UNCHANGED << clientID, px >>

\* A request reaches the access-token middleware of Authorizer.
AccessTokenRequest(r) ==
    /\ rq[r].pc = "idle"
    /\ \E auth \in AuthValues(MaxParts), inb \in Inbound :
          rq' = [rq EXCEPT ![r] = VerifyAccessTokenMiddleware(@, auth, inb)]
    /\ UNCHANGED << clientID, px >>

\* The provider answers the verify-access-token call of Authorizer.
AccessTokenVerified(r) ==
    /\ Waiting(r, "Authorizer.VerifyAccessToken", "VerifyAccessToken")
    /\ \E resp \in Responses("VerifyAccessToken") :
          rq' = [rq EXCEPT ![r] = VerifyAccessTokenMiddlewareResume(Answer(@, resp))]
    /\ UNCHANGED << clientID, px >>

\* The provider answers the get-profile call of Authorizer.
ProfileFetched(r) ==
    /\ Waiting(r, "Authorizer.VerifyAccessToken", "GetProfile")
    /\ \E resp \in Responses("GetProfile") :
          rq' = [rq EXCEPT ![r] = VerifyAccessTokenMiddlewareProfile(Answer(@, resp))]
    /\ UNCHANGED << clientID, px >>

\* A request reaches the identity-token middleware of LINEAuthorizer.
LINEIDTokenRequest(r) ==
    /\ rq[r].pc = "idle"
    /\ \E auth \in AuthValues(MaxParts), inb \in Inbound :
          rq' = [rq EXCEPT ![r] = LINEVerifyIDTokenMiddleware(@, auth, inb, clientID)]
    /\ UNCHANGED << clientID, px >>

\* The provider answers the verify-id-token call of LINEAuthorizer.
LINEIDTokenVerified(r) ==
    /\ Waiting(r, "LINEAuthorizer.VerifyIDToken", "VerifyIDToken")
    /\ \E resp \in Responses("VerifyIDToken") :
          rq' = [rq EXCEPT ![r] = LINEVerifyIDTokenMiddlewareResume(Answer(@, resp))]
    /\ UNCHANGED << clientID, px >>

\* A request reaches the access-token middleware of LINEAuthorizer.
LINEAccessTokenRequest(r) ==
    /\ rq[r].pc = "idle"
    /\ \E auth \in AuthValues(MaxParts), inb \in Inbound :
          rq' = [rq EXCEPT ![r] = LINEVerifyAccessTokenMiddleware(@, auth, inb, clientID)]
    /\ UNCHANGED << clientID, px >>

\* The provider answers the verify-access-token call of LINEAuthorizer.
LINEAccessTokenVerified(r) ==
    /\ Waiting(r, "LINEAuthorizer.VerifyAccessToken", "VerifyAccessToken")
    /\ \E resp \in Responses("VerifyAccessToken") :
          rq' = [rq EXCEPT ![r] =
                    LINEVerifyAccessTokenMiddlewareResume(Answer(@, resp), clientID)]
    /\ UNCHANGED << clientID, px >>

\* The provider answers the get-profile call of LINEAuthorizer.
LINEProfileFetched(r) ==
    /\ Waiting(r, "LINEAuthorizer.VerifyAccessToken", "GetProfile")
    /\ \E resp \in Responses("GetProfile") :
          rq' = [rq EXCEPT ![r] = LINEVerifyAccessTokenMiddlewareProfile(Answer(@, resp))]
    /\ UNCHANGED << clientID, px >>

Next ==
    \E r \in Req :
        \/ IDTokenRequest(r)
        \/ IDTokenVerified(r)
        \/ AccessTokenRequest(r)
        \/ AccessTokenVerified(r)
        \/ ProfileFetched(r)
        \/ LINEIDTokenRequest(r)
        \/ LINEIDTokenVerified(r)
        \/ LINEAccessTokenRequest(r)
        \/ LINEAccessTokenVerified(r)
        \/ LINEProfileFetched(r)

Spec == Init /\ [][Next]_vars

\* --------------------------------------- the client called on its own
\* The examples call the client operations without a middleware, and the
\* inbound request of a middleware can be cancelled while it waits.
Packages == { "goline", "auth" }
ClientOps == { "VerifyIDToken", "VerifyAccessToken", "GetProfile" }
DirectTokens == Concats(1)
UserIDs == { "", "U1" }
Nonces == { "", "n1" }

\* The operation op of package pkg, called as the examples do (ctx :=
\* context.TODO()).
ClientCall(pkg, op, cid, token, userid, nonce) ==
    IF pkg = "goline"
    THEN CASE op = "VerifyIDToken"     -> VerifyIDToken(CtxTODO, cid, token, userid, nonce)
           [] op = "VerifyAccessToken" -> VerifyAccessToken(CtxTODO, token)
           [] op = "GetProfile"        -> GetProfile(CtxTODO, token)
    ELSE CASE op = "VerifyIDToken"     -> LINEVerifyIDToken(CtxTODO, cid, token, userid, "now")
           [] op = "VerifyAccessToken" -> LINEVerifyAccessToken(CtxTODO, token)
           [] op = "GetProfile"        -> LINEGetProfile(CtxTODO, token)

\* A program calls one client operation.
DirectCall(r) ==
    /\ rq[r].pc = "idle"
    /\ \E pkg \in Packages, op \in ClientOps, token \in DirectTokens,
          userid \in UserIDs, nonce \in Nonces :
          LET q0 == Received(rq[r], pkg, <<>>, NoHeaders)
              q1 == Called(q0, ClientCall(pkg, op, clientID, token, userid, nonce))
          IN rq' = [rq EXCEPT ![r] =
                        IF q1.pc = "resume" THEN [q1 EXCEPT !.pc = "done"] ELSE q1]
    /\ UNCHANGED << clientID, px >>

\* The provider answers the call the program made.
DirectReturned(r) ==
    /\ rq[r].pc = "wait"
    /\ rq[r].mw \in Packages
    /\ \E resp \in Responses(Last(rq[r].calls).op) :
          rq' = [rq EXCEPT ![r] = [Answer(@, resp) EXCEPT !.pc = "done"]]
    /\ UNCHANGED << clientID, px >>

\* The context ctx, as held by a call of request q, is cancelled.
CtxCanceled(q, ctx) == ctx = CtxRequest /\ q.canceled

\* What http.Client.Do gives for a request whose context is cancelled.
ContextCanceled == [transport |-> TRUE, code |-> 0, body |-> [json |-> "none", obj |-> NoObj]]

\* The middleware of q goes on after its pending call returned.
Resume(q, cid) ==
    LET op == Last(q.calls).op
    IN CASE q.mw = "Authorizer.VerifyIDToken" -> VerifyIDTokenMiddlewareResume(q)
         [] q.mw = "Authorizer.VerifyAccessToken" ->
                IF op = "VerifyAccessToken" THEN VerifyAccessTokenMiddlewareResume(q)
                ELSE VerifyAccessTokenMiddlewareProfile(q)
         [] q.mw = "LINEAuthorizer.VerifyIDToken" -> LINEVerifyIDTokenMiddlewareResume(q)
         [] q.mw = "LINEAuthorizer.VerifyAccessToken" ->
                IF op = "VerifyAccessToken" THEN LINEVerifyAccessTokenMiddlewareResume(q, cid)
                ELSE LINEVerifyAccessTokenMiddlewareProfile(q)

\* The caller of a middleware goes away while the middleware waits for the
\* provider: the context of the inbound request is cancelled.  A pending
\* call that was given this context returns with an error at once; a call
\* that was given another context goes on.
CancelRequest(r) ==
    /\ rq[r].pc = "wait"
    /\ rq[r].mw \notin Packages
    /\ ~rq[r].canceled
    /\ LET q1 == [rq[r] EXCEPT !.canceled = TRUE]
       IN rq' = [rq EXCEPT ![r] =
                    IF CtxCanceled(q1, Last(q1.calls).ctx)
                    THEN Resume(Answer(q1, ContextCanceled), clientID)
                    ELSE q1]
    /\ UNCHANGED << clientID, px >>

NextAPI ==
    \/ Next
    \/ \E r \in Req :
        \/ DirectCall(r)
        \/ DirectReturned(r)
        \/ CancelRequest(r)

SpecAPI == Init /\ [][NextAPI]_vars

\* ------------------------------------------------- concurrent requests
\* The host server runs one goroutine per inbound request; NumConc requests
\* go through the two middlewares of one Authorizer, over a small domain of
\* headers and responses with two different identities.
NumConc == 2
Conc == 1..NumConc

ConcAuth ==
    { <<>>, << bearerToken(<< "x" >>) >>, << bearerToken(<< "y" >>) >> }

ConcPayloads(op) ==
    IF op = "VerifyIDToken"
    THEN { [Sub |-> "U123", Name |-> "Alice", Picutre |-> "pic", Email |-> "mail"],
           [Sub |-> "U456", Name |-> "Bob", Picutre |-> "pic2", Email |-> "mail2"] }
    ELSE IF op = "VerifyAccessToken" THEN VerifyAccessTokenResponses
    ELSE { [UserID |-> "U123", DisplayName |-> "Alice", PictureURL |-> "pic",
            StatusMessage |-> "hi"],
           [UserID |-> "U456", DisplayName |-> "Bob", PictureURL |-> "pic2",
            StatusMessage |-> "yo"] }

ConcResponses(op) ==
    { ContextCanceled }
      \cup { [transport |-> FALSE, code |-> StatusUnauthorized,
              body |-> [json |-> "invalid", obj |-> NoObj]] }
      \cup { [transport |-> FALSE, code |-> StatusOK,
              body |-> [json |-> "object", obj |-> d]] : d \in ConcPayloads(op) }

InitConc ==
    /\ clientID \in ClientIDs
    /\ rq = [r \in Conc |-> IdleReq]
    /\ px = NoPure

\* A request reaches the identity-token middleware.
ConcIDTokenRequest(r) ==
    /\ rq[r].pc = "idle"
    /\ \E auth \in ConcAuth :
          rq' = [rq EXCEPT ![r] = VerifyIDTokenMiddleware(@, auth, NoHeaders)]
    /\ UNCHANGED << clientID, px >>

\* A request reaches the access-token middleware.
ConcAccessTokenRequest(r) ==
    /\ rq[r].pc = "idle"
    /\ \E auth \in ConcAuth :
          rq' = [rq EXCEPT ![r] = VerifyAccessTokenMiddleware(@, auth, NoHeaders)]
    /\ UNCHANGED << clientID, px >>

\* ConcAnswered with the result of a verification kept where every request
\* finds it: an accepted request gets the headers of the request accepted
\* before it.
ConcAnswered_SharedResult(r) ==
    /\ rq[r].pc = "wait"
    /\ \E resp \in ConcResponses(Last(rq[r].calls).op) :
          LET q == Resume(Answer(rq[r], resp), clientID)
              others == { o \in Conc \ {r} : rq[o].next > 0 }
          IN rq' = [rq EXCEPT ![r] =
                        IF q.next > 0 /\ others # {}
                        THEN LET o == CHOOSE o \in others : TRUE
                             IN [q EXCEPT !.header = rq[o].header, !.seen = rq[o].header]
                        ELSE q]
    /\ UNCHANGED << clientID, px >>

\* The provider answers the pending call of a request, and its middleware
\* goes on.
ConcAnswered(r) ==
    /\ rq[r].pc = "wait"
    /\ \E resp \in ConcResponses(Last(rq[r].calls).op) :
          rq' = [rq EXCEPT ![r] = Resume(Answer(@, resp), clientID)]
    /\ UNCHANGED << clientID, px >>

NextConc ==
    \E r \in Conc :
        \/ ConcIDTokenRequest(r)
        \/ ConcAccessTokenRequest(r)
        \/ ConcAnswered(r)

SpecConc == InitConc /\ [][NextConc]_vars

\* ------------------------------------------- the functions on their own
PureFns == { "extractBearerToken", "getTokenFromBearerToken", "roundTrip" }

\* No request is served; one of the string functions is given one argument.
InitPure ==
    /\ clientID \in ClientIDs
    /\ rq = [r \in Req |-> OffReq]
    /\ px \in { [NoPure EXCEPT !.fn = f, !.arg = a] :
                    f \in PureFns, a \in Concats(MaxPureParts) }

ApplyExtractBearerToken ==
    /\ px.fn = "extractBearerToken" /\ ~px.done
    /\ px' = [px EXCEPT !.done = TRUE, !.res = extractBearerToken(px.arg)]
    /\ UNCHANGED << clientID, rq >>

ApplyGetTokenFromBearerToken ==
    /\ px.fn = "getTokenFromBearerToken" /\ ~px.done
    /\ px' = [px EXCEPT !.done = TRUE, !.res = getTokenFromBearerToken(px.arg)]
    /\ UNCHANGED << clientID, rq >>

\* The client builds the header of a token, the middleware extracts from it.
ApplyRoundTrip ==
    /\ px.fn = "roundTrip" /\ ~px.done
    /\ px' = [px EXCEPT !.done = TRUE, !.res = extractBearerToken(bearerToken(px.arg))]
    /\ UNCHANGED << clientID, rq >>

NextPure ==
    \/ ApplyExtractBearerToken
    \/ ApplyGetTokenFromBearerToken
    \/ ApplyRoundTrip

SpecPure == InitPure /\ [][NextPure]_vars

\* ------------------------------------------------------------ properties
IDTokenMiddlewares == { "Authorizer.VerifyIDToken", "LINEAuthorizer.VerifyIDToken" }
AccessTokenMiddlewares == { "Authorizer.VerifyAccessToken", "LINEAuthorizer.VerifyAccessToken" }

\* The value the middleware reads from the Authorization header.
AuthorizationOf(q) == AuthGet(q.auth, "Authorization")

Arrived(q) == q.mw # "none"

\* Calls of an operation that have returned without error.
Succeeded(c) == c.returned /\ c.err = NoErr
CallsOf(q, op) == { i \in DOMAIN q.calls : q.calls[i].op = op }

\* A verify-access-token call of the request succeeded with a client
\* identifier that is not the one the authorizer was constructed with.
ClientIDMismatch(q) ==
    /\ q.mw \in AccessTokenMiddlewares
    /\ \E i \in CallsOf(q, "VerifyAccessToken") :
          Succeeded(q.calls[i]) /\ q.calls[i].val.ClientID # clientID

\* Number of positions at which sep occurs in s.
Occurrences(s, sep) ==
    Cardinality({ i \in 1..Len(s) :
                     /\ i + Len(sep) - 1 <= Len(s)
                     /\ SubSeq(s, i, i + Len(sep) - 1) = sep })

HasPrefix(s, pre) == Len(s) >= Len(pre) /\ SubSeq(s, 1, Len(pre)) = pre

\* A step of the chain failed: the header is missing or empty, the
\* extraction returned an error, a remote call returned an error, or the
\* client identifier does not match.
StepFailed(q) ==
    /\ Arrived(q)
    /\ \/ AuthorizationOf(q) = <<>>
       \/ extractBearerToken(AuthorizationOf(q)).err
       \/ \E i \in DOMAIN q.calls : q.calls[i].returned /\ q.calls[i].err # NoErr
       \/ ClientIDMismatch(q)

\* The identity keys a middleware sets.
PathKeys(q) ==
    IF q.mw \in IDTokenMiddlewares
    THEN { HeaderKeyLINEUserID, HeaderKeyLINEDisplayName, HeaderKeyLINEPictureURL,
           HeaderKeyLINEEmail }
    ELSE { HeaderKeyLINEUserID, HeaderKeyLINEDisplayName, HeaderKeyLINEPictureURL,
           HeaderKeyLINEStatusMessage }

\* C1: the wrapped handler is invoked only if every verification call of the
\* request returned success, and when any step fails (header read,
\* extraction, verify, client-id check, profile fetch) the handler is not
\* invoked and the request carries no identity value added by the middleware.
C1_HandlerOnlyAfterEveryStep ==
    \A r \in Req :
        LET q == rq[r]
        IN /\ q.next > 0 =>
                /\ q.calls # <<>>
                /\ \A i \in DOMAIN q.calls : Succeeded(q.calls[i])
           /\ StepFailed(q) => q.next = 0 /\ q.header = q.inbound

\* C2: access-token path: when VerifyAccessToken succeeds with a client
\* identifier other than the configured one, the request is rejected with
\* 401, GetProfile is not invoked and the handler is not called.
C2_ClientIDMismatchRejected ==
    \A r \in Req :
        LET q == rq[r]
        IN ClientIDMismatch(q) =>
              /\ CallsOf(q, "GetProfile") = {}
              /\ q.next = 0
              /\ q.pc = "done"
              /\ q.w.status = StatusUnauthorized

\* C3: a request whose Authorization header is missing or empty is rejected
\* with no call of VerifyIDToken, VerifyAccessToken or GetProfile (so no
\* outbound request either), and the handler is not invoked.
C3_MissingHeaderNoRemoteCall ==
    \A r \in Req :
        LET q == rq[r]
        IN (Arrived(q) /\ AuthorizationOf(q) = <<>>) =>
              /\ q.calls = <<>>
              /\ q.next = 0
              /\ q.pc = "done"
              /\ q.w.status # 0

\* A request without Authorization header has been through the
\* identity-token middleware of Authorizer.
C3_Witness ==
    \E r \in Req :
        /\ rq[r].mw = "Authorizer.VerifyIDToken"
        /\ rq[r].auth = <<>>
        /\ rq[r].pc = "done"
        /\ rq[r].w.status = StatusUnauthorized

\* C4: every failure in either middleware gives status 401 with an empty
\* body, and the middleware writes no other status code.
C4_EveryFailureIs401 ==
    \A r \in Req :
        LET q == rq[r]
        IN /\ q.w.status \in {0, StatusUnauthorized}
           /\ q.w.body = <<>>
           /\ (q.pc = "done" /\ StepFailed(q)) => q.w.status = StatusUnauthorized

\* C5: identity-token path: a verification that returns without error and
\* with an empty subject is rejected with 401, no identity header is added
\* and the handler is not invoked.
C5_EmptySubjectRejected ==
    \A r \in Req :
        LET q == rq[r]
        IN (/\ q.mw \in IDTokenMiddlewares
            /\ q.calls # <<>>
            /\ Succeeded(Last(q.calls))
            /\ Last(q.calls).val.Sub = "") =>
              /\ q.w.status = StatusUnauthorized
              /\ q.header = q.inbound
              /\ q.next = 0

\* C6: identity-token path: after a successful verification with subject s,
\* name n, picture p and e-mail e the request carries LINEUserID=s,
\* LINEDisplayName=n, LINEPictureURL=p, LINEEmail=e added to what it came
\* with (an absent field as the empty string), and the handler has been
\* invoked exactly once, with these headers.
C6_IDTokenHeadersInjected ==
    \A r \in Req :
        LET q == rq[r]
        IN (/\ q.mw \in IDTokenMiddlewares
            /\ q.calls # <<>>
            /\ Succeeded(Last(q.calls))) =>
              LET d == Last(q.calls).resp.body.obj
              IN /\ q.pc = "done"
                 /\ q.next = 1
                 /\ q.w.status = 0
                 /\ q.header[HeaderKeyLINEUserID] = Append(q.inbound[HeaderKeyLINEUserID], d.Sub)
                 /\ q.header[HeaderKeyLINEDisplayName] = Append(q.inbound[HeaderKeyLINEDisplayName], d.Name)
                 /\ q.header[HeaderKeyLINEPictureURL] = Append(q.inbound[HeaderKeyLINEPictureURL], d.Picutre)
                 /\ q.header[HeaderKeyLINEEmail] = Append(q.inbound[HeaderKeyLINEEmail], d.Email)
                 /\ q.header[HeaderKeyLINEStatusMessage] = q.inbound[HeaderKeyLINEStatusMessage]
                 /\ q.seen = q.header

\* Subject U123 and name Alice, picture and e-mail absent: the handler ran
\* once with LINEUserID=U123 and LINEDisplayName=Alice.
C6_Witness ==
    \E r \in Req :
        LET q == rq[r]
        IN /\ q.mw = "Authorizer.VerifyIDToken"
           /\ q.inbound = NoHeaders
           /\ q.pc = "done"
           /\ q.next = 1
           /\ q.calls # <<>>
           /\ Last(q.calls).val = [Sub |-> "U123", Name |-> "Alice", Picutre |-> "", Email |-> ""]
           /\ HeaderGet(q.seen, HeaderKeyLINEUserID) = "U123"
           /\ HeaderGet(q.seen, HeaderKeyLINEDisplayName) = "Alice"

C8_MalformedHeaderRejected ==
    (px.done /\ px.fn \in {"extractBearerToken", "getTokenFromBearerToken"}) =>
        ((\/ px.arg = <<>>
          \/ ~HasPrefix(px.arg, BearerSep)
          \/ Occurrences(px.arg, BearerSep) # 1) => px.res.err)

\* C9 as stated: for every non-empty token t, extraction from "Bearer " + t
\* succeeds and returns t unchanged.
C9_RoundTripEveryToken ==
    (px.done /\ px.fn = "roundTrip" /\ px.arg # <<>>) =>
        px.res = [err |-> FALSE, token |-> px.arg]

\* C9, amended: for every non-empty token t that does not contain "Bearer ",
\* extraction from "Bearer " + t succeeds and returns t unchanged (blanks
\* included); for a token that contains "Bearer " it fails.
C9_RoundTripSeparatorFree ==
    (px.done /\ px.fn = "roundTrip" /\ px.arg # <<>>) =>
        IF Occurrences(px.arg, BearerSep) = 0
        THEN px.res = [err |-> FALSE, token |-> px.arg]
        ELSE px.res.err

\* The token " x " came back with its blanks.
C9_Witness ==
    /\ px.done
    /\ px.fn = "roundTrip"
    /\ px.arg = << " ", "x", " " >>
    /\ px.res = [err |-> FALSE, token |-> << " ", "x", " " >>]

\* C10: a call answered with a status other than 200 returns the error of
\* that status (400 ErrBadRequest, 401 ErrUnauthorized, 403 ErrForbidden,
\* 429 ErrTooManyRequests, 500 ErrInternalServerError, any other code an
\* unknown-status error carrying the code) and a nil result, whatever the
\* body of the response.
C10_StatusMappedToError ==
    \A r \in Req :
        \A i \in DOMAIN rq[r].calls :
            LET c == rq[r].calls[i]
            IN (c.returned /\ c.sent /\ ~c.resp.transport /\ c.resp.code # 200) =>
                  /\ c.val = NilVal
                  /\ c.err # NoErr
                  /\ c.resp.code = 400 => c.err.kind = "ErrBadRequest"
                  /\ c.resp.code = 401 => c.err.kind = "ErrUnauthorized"
                  /\ c.resp.code = 403 => c.err.kind = "ErrForbidden"
                  /\ c.resp.code = 429 => c.err.kind = "ErrTooManyRequests"
                  /\ c.resp.code = 500 => c.err.kind = "ErrInternalServerError"
                  /\ c.resp.code \notin {400, 401, 403, 429, 500} =>
                        c.err = [kind |-> "Unknown status code", code |-> c.resp.code]

\* GetProfile answered 403 with a well-formed profile in the body, after a
\* successful VerifyAccessToken: ErrForbidden and no profile.
C10_Witness ==
    \E r \in Req :
        LET q == rq[r]
        IN /\ Len(q.calls) = 2
           /\ q.calls[2].op = "GetProfile"
           /\ q.calls[2].returned
           /\ q.calls[2].resp.code = 403
           /\ q.calls[2].resp.body.json = "object"
           /\ q.calls[2].err = Err("ErrForbidden")
           /\ q.calls[2].val = NilVal

\* ------------------------------------------------------------------ C11
Middlewares == IDTokenMiddlewares \cup AccessTokenMiddlewares

\* C11: a client operation called with an empty token returns an error and
\* no result without an outbound request; a request whose Authorization
\* value is exactly "Bearer " is rejected by the middleware, the handler not
\* invoked and no outbound request sent.
C11_EmptyTokenNoOutboundCall ==
    \A r \in Req :
        LET q == rq[r]
        IN /\ \A i \in DOMAIN q.calls :
                 q.calls[i].token = <<>> =>
                    /\ ~q.calls[i].sent
                    /\ q.calls[i].req = NoRequest
                    /\ q.calls[i].returned
                    /\ q.calls[i].err # NoErr
                    /\ q.calls[i].val = NilVal
           /\ (q.mw \in Middlewares /\ AuthorizationOf(q) = BearerSep) =>
                 /\ q.pc = "done"
                 /\ q.w.status \in { StatusBadRequest, StatusUnauthorized }
                 /\ q.next = 0
                 /\ \A i \in DOMAIN q.calls : ~q.calls[i].sent

\* The access-token middleware of Authorizer got "Bearer ": the empty token
\* went to VerifyAccessToken, which returned its error at once, and the
\* request was answered 401.
C11_Witness ==
    \E r \in Req :
        LET q == rq[r]
        IN /\ q.mw = "Authorizer.VerifyAccessToken"
           /\ AuthorizationOf(q) = BearerSep
           /\ Len(q.calls) = 1
           /\ q.calls[1].op = "VerifyAccessToken"
           /\ q.calls[1].token = <<>>
           /\ ~q.calls[1].sent
           /\ q.calls[1].err = Err("Access Token not found")
           /\ q.w.status = StatusUnauthorized

\* ------------------------------------------------------------------ C12
\* C12: the request VerifyIDToken sends for a non-empty token carries the
\* bearer credential in Authorization, the client identifier and the nonce
\* it was given as parameters, and the user id as a parameter exactly when
\* a non-empty user id was given.
C12_VerifyIDTokenRequestCarriesParameters ==
    \A r \in Req :
        \A i \in DOMAIN rq[r].calls :
            LET c == rq[r].calls[i]
            IN (c.op = "VerifyIDToken" /\ c.sent) =>
                  /\ c.req.authorization = << bearerToken(c.token) >>
                  /\ HasParam(c.req, "clientid", c.args.clientid)
                  /\ HasParam(c.req, "nonce", c.args.nonce)
                  /\ HasKey(c.req, "userid") <=> (c.args.userid # "")
                  /\ c.args.userid # "" => HasParam(c.req, "userid", c.args.userid)

\* ------------------------------------------------------------------ C15
\* C15: on the access-token path GetProfile is called at most once and only
\* after a VerifyAccessToken call of the same request, for the same token,
\* returned without error; when VerifyAccessToken returned an error
\* GetProfile is not called and the request is over; a middleware makes at
\* most two remote calls, none of them twice.
C15_ProfileOnlyAfterVerifiedToken ==
    \A r \in Req :
        LET q == rq[r]
        IN q.mw \in Middlewares =>
              /\ Len(q.calls) <= 2
              /\ \A op \in ClientOps : Cardinality(CallsOf(q, op)) <= 1
              /\ \A i \in CallsOf(q, "GetProfile") :
                    \E j \in CallsOf(q, "VerifyAccessToken") :
                        /\ j < i
                        /\ Succeeded(q.calls[j])
                        /\ q.calls[j].token = q.calls[i].token
              /\ \A j \in CallsOf(q, "VerifyAccessToken") :
                    (q.calls[j].returned /\ q.calls[j].err # NoErr) =>
                        /\ CallsOf(q, "GetProfile") = {}
                        /\ Len(q.calls) = 1
                        /\ q.pc = "done"
                        /\ q.next = 0

\* VerifyAccessToken returned without error and GetProfile, called with the
\* same token, is pending.
C15_Witness ==
    \E r \in Req :
        LET q == rq[r]
        IN /\ q.mw = "Authorizer.VerifyAccessToken"
           /\ Len(q.calls) = 2
           /\ q.calls[1].op = "VerifyAccessToken"
           /\ Succeeded(q.calls[1])
           /\ q.calls[2].op = "GetProfile"
           /\ q.calls[2].token = q.calls[1].token
           /\ q.calls[2].sent
           /\ ~q.calls[2].returned

\* ------------------------------------------------------------------ C16
\* The value the verification of an accepted request yielded for a key of
\* its path: the field of the claims or of the profile the middleware adds
\* under that key.
VerifiedValue(q, k) ==
    LET v == Last(q.calls).val
    IN IF q.mw \in IDTokenMiddlewares
       THEN CASE k = HeaderKeyLINEUserID      -> v.Sub
              [] k = HeaderKeyLINEDisplayName -> v.Name
              [] k = HeaderKeyLINEPictureURL  -> v.Picutre
              [] k = HeaderKeyLINEEmail       -> v.Email
       ELSE CASE k = HeaderKeyLINEUserID        -> v.UserID
              [] k = HeaderKeyLINEDisplayName   -> v.DisplayName
              [] k = HeaderKeyLINEPictureURL    -> v.PictureURL
              [] k = HeaderKeyLINEStatusMessage -> v.StatusMessage

\* C16: what the handler of an accepted request reads with Header.Get under
\* an identity key is the verified value, whatever the caller sent under
\* that key; a value the caller sent under an identity key is never what
\* the handler reads.
C16_HandlerReadsVerifiedIdentity ==
    \A r \in Req :
        LET q == rq[r]
        IN (q.mw \in Middlewares /\ q.next > 0) =>
              /\ \A k \in PathKeys(q) : HeaderGet(q.seen, k) = VerifiedValue(q, k)
              /\ \A k \in IdentityKeys :
                    q.inbound[k] # <<>> => HeaderGet(q.seen, k) # HeaderGet(q.inbound, k)

\* ------------------------------------------------------------------ C14
\* C14: when the inbound request of a middleware is cancelled, the context
\* the middleware gave to each of its remote calls is cancelled, and no
\* call of the request is left pending.
C14_RemoteCallsFollowRequestContext ==
    \A r \in Req :
        LET q == rq[r]
        IN (q.mw \in Middlewares /\ q.canceled) =>
              \A i \in DOMAIN q.calls :
                  /\ CtxCanceled(q, q.calls[i].ctx)
                  /\ q.calls[i].returned

\* ------------------------------------------------------------------ C13
\* The request q as its middleware left it at the first remote call, from
\* q's own headers alone.
Entry(q) ==
    CASE q.mw = "Authorizer.VerifyIDToken" ->
            VerifyIDTokenMiddleware(IdleReq, q.auth, q.inbound)
      [] q.mw = "Authorizer.VerifyAccessToken" ->
            VerifyAccessTokenMiddleware(IdleReq, q.auth, q.inbound)
      [] q.mw = "LINEAuthorizer.VerifyIDToken" ->
            LINEVerifyIDTokenMiddleware(IdleReq, q.auth, q.inbound, clientID)
      [] q.mw = "LINEAuthorizer.VerifyAccessToken" ->
            LINEVerifyAccessTokenMiddleware(IdleReq, q.auth, q.inbound, clientID)

\* The middleware run on from p with the provider's responses to q's own
\* calls, as far as they have arrived.
RECURSIVE Replay(_, _)
Replay(p, q) ==
    LET n == Len(p.calls)
    IN IF p.pc = "wait" /\ n <= Len(q.calls) /\ q.calls[n].returned
       THEN Replay(Resume(Answer(p, q.calls[n].resp), clientID), q)
       ELSE p

\* Every request is what its own Authorization header and the responses to
\* its own calls make it, and an accepted request carries under each key of
\* its path the one value its own verification yielded.
C13_OwnInputsOnly ==
    \A r \in DOMAIN rq :
        LET q == rq[r]
        IN q.mw \in Middlewares =>
              /\ q = Replay(Entry(q), q)
              /\ q.next > 0 =>
                    /\ \A i \in DOMAIN q.calls : Succeeded(q.calls[i])
                    /\ \A k \in PathKeys(q) :
                          q.header[k] = Append(q.inbound[k], VerifiedValue(q, k))
                    /\ q.seen = q.header

\* A step is the step of one request and leaves the client identifier as
\* the constructor set it.
C13_OneRequestPerStep ==
    /\ clientID' = clientID
    /\ \A r \in DOMAIN rq, o \in DOMAIN rq :
          (r # o /\ rq'[r] # rq[r]) => rq'[o] = rq[o]

\* C13: with several requests in flight through one Authorizer and Client,
\* in every interleaving the outcome of each request and the identity
\* headers injected into it depend only on its own Authorization header and
\* the provider's responses to its own calls; no identity value of a
\* request is injected into another; the client identifier is never
\* modified after construction.
C13_RequestsIndependent == []C13_OwnInputsOnly /\ [][C13_OneRequestPerStep]_vars

\* Two requests with the same Authorization header were verified as
\* different users, and each handler got its own user.
C13_Witness ==
    /\ DOMAIN rq = Conc
    /\ rq[1].mw = "Authorizer.VerifyIDToken"
    /\ rq[2].mw = "Authorizer.VerifyIDToken"
    /\ rq[1].auth = rq[2].auth
    /\ rq[1].next = 1
    /\ rq[2].next = 1
    /\ HeaderGet(rq[1].seen, HeaderKeyLINEUserID) = "U123"
    /\ HeaderGet(rq[2].seen, HeaderKeyLINEUserID) = "U456"

====
